---- MODULE Spec2Model ----
(***************************************************************************)
(* A model of the arxiv_daily scripts: the worker pool runConcurrent       *)
(* (scripts/llm.js) and the scripts that rewrite data/papers.json          *)
(* (fetch_papers.js, backfill.js, regen script).                           *)
(***************************************************************************)
EXTENDS Integers, Sequences, FiniteSets, TLC

(***************************************************************************)
(* Bounds of the model.                                                    *)
(***************************************************************************)
MaxTasks == 3
MaxConcurrency == 3

Min(a, b) == IF a < b THEN a ELSE b

Range(s) == {s[i] : i \in 1..Len(s)}

SeqsUpTo(S, n) == UNION {[1..k -> S] : k \in 0..n}

(***************************************************************************)
(* runConcurrent (scripts/llm.js, 72-87)                                   *)
(*                                                                         *)
(* tasks       the task list; a task either fulfils with a value or        *)
(*             rejects                                                     *)
(* concurrency the limit given by the caller                               *)
(* nextIdx     the shared cursor (0-based, as in the source)               *)
(* results     the result array; slot idx+1 here is results[idx] there     *)
(* workers     one entry per worker() call: the 0-based index it awaits,   *)
(*             Returned once its loop ended, Threw once its await threw    *)
(* rcState     the promise returned by runConcurrent                       *)
(* started     indices whose task was invoked (history)                    *)
(* settled     indices whose promise settled, in order (history)           *)
(***************************************************************************)
VARIABLES tasks, concurrency, nextIdx, results, workers, rcState, started, settled

rcvars == <<tasks, concurrency, nextIdx, results, workers, rcState, started, settled>>

VARIABLES papersFile, indexFile, cacheFile, clock, run, hist

pvars == <<papersFile, indexFile, cacheFile, clock, run, hist>>

\* one call of filterByRelevance by main (fetch_papers.js, 483-504)
VARIABLES fltItems, fltEnv, fltResults, fltNextIdx, fltState, fltKept,
          fltCache, fltCalls

fvars == <<fltItems, fltEnv, fltResults, fltNextIdx, fltState, fltKept,
           fltCache, fltCalls>>

\* one enrichment task: what it is given and the record it builds
VARIABLES enrich, enriched

tvars == <<enrich, enriched>>

\* one call of normalizeArxivId: the input string and what the call gave
VARIABLES nzInput, nzResult

nvars == <<nzInput, nzResult>>

\* one request to the relay (scripts/wecom_proxy.js)
VARIABLES PROXY_TOKEN, request, relayPc, relayResults, relayCalls, response

lvars == <<PROXY_TOKEN, request, relayPc, relayResults, relayCalls, response>>

uvars == <<tvars, nvars, lvars>>
vars == <<tasks, concurrency, nextIdx, results, workers, rcState, started, settled,
          papersFile, indexFile, cacheFile, clock, run, hist,
          fltItems, fltEnv, fltResults, fltNextIdx, fltState, fltKept,
          fltCache, fltCalls, enrich, enriched, nzInput, nzResult,
          PROXY_TOKEN, request, relayPc, relayResults, relayCalls, response>>

Vals == {"a", "b"}
Undefined == "undefined"
Returned == -1
Threw == -2

TaskOutcomes == [ok : {TRUE}, val : Vals] \cup {[ok |-> FALSE, val |-> Undefined]}

\* Array.from({ length: Math.min(concurrency, tasks.length) }, ...)
NumWorkersAll(c, n) == n
NumWorkers(c, n) == Min(c, n)

\* results[idx] = await tasks[idx]()   (idx was read before the await)
StoreResultAtCursor(res, idx, cursor, v) == [res EXCEPT ![cursor] = v]
StoreResult(res, idx, cursor, v) == [res EXCEPT ![idx + 1] = v]

\* while (nextIdx < tasks.length) { const idx = nextIdx++; ... }
WorkerLoopButLast(cursor, n) == IF cursor + 1 < n THEN cursor ELSE Returned
WorkerLoop(cursor, n) == IF cursor < n THEN cursor ELSE Returned

\* Promise.all over the workers, once no worker is awaiting
PromiseAll(ws, st) ==
  IF st # "pending" THEN st
  ELSE IF \E w \in 1..Len(ws) : ws[w] = Threw THEN "rejected"
  ELSE IF \A w \in 1..Len(ws) : ws[w] = Returned THEN "resolved"
  ELSE "pending"

RcInit ==
  /\ tasks \in SeqsUpTo(TaskOutcomes, MaxTasks)
  /\ concurrency \in 1..MaxConcurrency
  /\ nextIdx = 0
  /\ results = <<>>
  /\ workers = <<>>
  /\ rcState = "init"
  /\ started = {}
  /\ settled = <<>>

\* The call: the array is allocated and every worker runs up to its first await.
RcCall ==
  /\ UNCHANGED <<pvars, fvars, uvars>>
  /\ rcState = "init"
  /\ LET n == Len(tasks)
         W == NumWorkers(concurrency, n)
         taken == Min(W, n)
     IN /\ results' = [i \in 1..n |-> Undefined]
        /\ workers' = [w \in 1..W |-> WorkerLoop(w - 1, n)]
        /\ nextIdx' = taken
        /\ started' = 0..(taken - 1)
        /\ rcState' = PromiseAll(workers', "pending")
  /\ UNCHANGED <<tasks, concurrency, settled>>

\* The task awaited by worker w fulfils: the slot is stored and the loop goes on.
RcFulfil(w) ==
  /\ UNCHANGED <<pvars, fvars, uvars>>
  /\ rcState # "init"
  /\ w \in 1..Len(workers)
  /\ workers[w] >= 0
  /\ tasks[workers[w] + 1].ok
  /\ LET idx == workers[w]
         nxt == WorkerLoop(nextIdx, Len(tasks))
     IN /\ results' = StoreResult(results, idx, nextIdx, tasks[idx + 1].val)
        /\ settled' = Append(settled, idx)
        /\ workers' = [workers EXCEPT ![w] = nxt]
        /\ nextIdx' = IF nxt = Returned THEN nextIdx ELSE nextIdx + 1
        /\ started' = IF nxt = Returned THEN started ELSE started \cup {nxt}
        /\ rcState' = PromiseAll(workers', rcState)
  /\ UNCHANGED <<tasks, concurrency>>

\* The task awaited by worker w rejects: the await throws out of worker().
RcReject(w) ==
  /\ UNCHANGED <<pvars, fvars, uvars>>
  /\ rcState # "init"
  /\ w \in 1..Len(workers)
  /\ workers[w] >= 0
  /\ ~tasks[workers[w] + 1].ok
  /\ settled' = Append(settled, workers[w])
  /\ workers' = [workers EXCEPT ![w] = Threw]
  /\ rcState' = PromiseAll(workers', rcState)
  /\ UNCHANGED <<tasks, concurrency, nextIdx, results, started>>

RcNext ==
  \/ RcCall
  \/ \E w \in 1..Len(workers) : RcFulfil(w)
  \/ \E w \in 1..Len(workers) : RcReject(w)

RcIdle ==
  /\ tasks = <<>>
  /\ concurrency = 1
  /\ nextIdx = 0
  /\ results = <<>>
  /\ workers = <<>>
  /\ rcState = "init"
  /\ started = {}
  /\ settled = <<>>

InFlight == started \ Range(settled)
RcQuiescent == rcState # "init" /\ \A w \in 1..Len(workers) : workers[w] < 0
Failing == {i \in 1..Len(tasks) : ~tasks[i].ok}

(***************************************************************************)
(* The dataset scripts.                                                    *)
(*                                                                         *)
(* A reference is kept as (scheme, id, ver): the listing links are         *)
(* http(s)://arxiv.org/abs/<id>[v<n>], ver = 0 standing for no suffix.     *)
(* An item of the listing is identified with its url; title, date,         *)
(* authors and category are functions of the url and are left out.         *)
(***************************************************************************)
MaxRuns == 2
MaxListing == 2
MAX_ITEMS == 60
SUMMARY_CONCURRENCY == 16
CONCURRENCY == 16

Url(s, i, v) == [scheme |-> s, id |-> i, ver |-> v]

\* the links the source page carries in the model
ListingUrls == {Url("http", "2503.01078", 1), Url("https", "2503.01078", 0),
                Url("http", "2503.01079", 1)}
PaperIds == {u.id : u \in ListingUrls}

\* scripts/arxiv.js: the identifier without scheme, route and version suffix
normalizeArxivId(u) == u.id
toAbsUrl(id) == Url("https", id, 0)

SOURCE_URL == "https://jiangranlv.github.io/robotics_arXiv_daily/"
NO_HTML_MSG == [kind |-> "nohtml", gen |-> 0]
EmptyText == [kind |-> "", gen |-> 0]
fallbackSummary == [kind |-> "fallbackSummary", gen |-> 0]
fallbackDetailed == [kind |-> "fallbackDetailed", gen |-> 0]
\* a text returned by the completion service; gen tells the run that asked
LlmText(t) == [kind |-> "llm", gen |-> t]

\* readExisting on a missing or unparseable file
NoFile == [generatedAt |-> 0, source |-> "", items |-> <<>>]
NoCache == [kept |-> <<>>, rejected |-> <<>>]

RECURSIVE Dedup(_)
\* [...new Set(s)]: first occurrences, in order
Dedup(s) ==
  IF s = <<>> THEN <<>>
  ELSE LET h == s[1]
           t == Dedup(Tail(s))
       IN <<h>> \o SelectSeq(t, LAMBDA x : x # h)

Take(s, n) == SubSeq(s, 1, Min(n, Len(s)))

\* extractItems: rows whose url was not seen yet, at most MAX_ITEMS of them
extractItems(rows) == Take(Dedup(rows), MAX_ITEMS)

Urls(recs) == {recs[i].url : i \in 1..Len(recs)}

\* new Map(items.map(item => [item.url, item])).get(u): the last record with
\* that url, as an index into recs (0: undefined)
MapGet(recs, u) ==
  LET hits == {i \in 1..Len(recs) : recs[i].url = u}
  IN IF hits = {} THEN 0 ELSE CHOOSE i \in hits : \A j \in hits : j <= i

\* previous?.summary && previous?.detailedSummary
HasBoth(recs, i) ==
  /\ i # 0
  /\ recs[i].summary # EmptyText
  /\ recs[i].detailedSummary # EmptyText

\* generateSummary / generateDetailedSummary (scripts/llm.js)
generateSummary(cfg, ok, t) ==
  IF ~cfg THEN fallbackSummary ELSE IF ok THEN LlmText(t) ELSE fallbackSummary
generateDetailedSummary(cfg, ok, t) ==
  IF ~cfg THEN fallbackDetailed ELSE IF ok THEN LlmText(t) ELSE fallbackDetailed

\* saveIndex: the fields of the index projection
IndexOf(p) == [id |-> p.url, summary |-> p.summary, updatedAt |-> p.updatedAt]
IndexItems(recs) == [i \in 1..Len(recs) |-> IndexOf(recs[i])]
saveIndex(payload) ==
  [generatedAt |-> payload.generatedAt, source |-> payload.source,
   items |-> IndexItems(payload.items)]

IdleRun ==
  [script |-> "none", pc |-> "idle", listing |-> <<>>, existing |-> NoFile,
   newItems |-> <<>>, alreadyKept |-> <<>>, items |-> <<>>, toProcess |-> <<>>,
   allDone |-> <<>>, oldPapers |-> <<>>, generatedAt |-> 0, nextIdx |-> 0,
   inflight |-> {}, llmConfigured |-> FALSE, llmCalls |-> {}, filterCalls |-> {},
   writes |-> 0, rerun |-> FALSE, startIndex |-> NoFile, rows |-> <<>>,
   filterCache |-> NoCache, forceId |-> "", skipped |-> {}]

CanStart == run.pc \in {"idle", "done", "failed"} /\ clock < MaxRuns

PInit ==
  /\ papersFile = NoFile
  /\ indexFile = NoFile
  /\ cacheFile = NoCache
  /\ clock = 0
  /\ run = IdleRun
  /\ hist = [valid |-> FALSE, listing |-> <<>>]

(***************************************************************************)
(* fetch_papers.js                                                         *)
(***************************************************************************)

\* main, 459-476: the split of the listing
IsKnownKept(u, ex, cache) == u \in Urls(ex.items) \/ u \in Range(cache.kept)
alreadyKeptOf(allItems, ex, cache) ==
  SelectSeq(allItems, LAMBDA u : IsKnownKept(u, ex, cache))
newItemsOfUnlessKept(allItems, ex, cache) ==
  SelectSeq(allItems, LAMBDA u : ~IsKnownKept(u, ex, cache))
newItemsOf(allItems, ex, cache) ==
  SelectSeq(allItems, LAMBDA u : ~IsKnownKept(u, ex, cache) /\ u \notin Range(cache.rejected))

\* filterByRelevance as main sees it: the items picked by the indices of the
\* service's answers, in the answers' order, an index possibly repeated
FilterOutcomes(newItems) == SeqsUpTo(Range(newItems), Len(newItems))

\* main, 486-494: the cache update
UpdateCacheRejectingAll(cache, newItems, newlyKept) ==
  [kept |-> Dedup(cache.kept \o Dedup(newlyKept)),
   rejected |-> Dedup(cache.rejected \o newItems)]
UpdateCache(cache, newItems, newlyKept) ==
  [kept |-> Dedup(cache.kept \o Dedup(newlyKept)),
   rejected |-> Dedup(cache.rejected \o
                      SelectSeq(newItems, LAMBDA u : u \notin Range(newlyKept)))]

\* main, 508-509: the records that are not on the current source page
oldPapersOnPage(ex, its) == SelectSeq(ex.items, LAMBDA p : p.url \in Range(its))
oldPapersOf(ex, its) == SelectSeq(ex.items, LAMBDA p : p.url \notin Range(its))

\* buildOutput, 243-260
IsCachedNever(u, recs) == FALSE
IsCached(u, recs) == HasBoth(recs, MapGet(recs, u))
cachedOf(its, recs, t) ==
  LET sel == SelectSeq(its, LAMBDA u : IsCached(u, recs))
  IN [k \in 1..Len(sel) |-> [recs[MapGet(recs, sel[k])] EXCEPT !.updatedAt = t]]
toProcessOf(its, recs) ==
  LET sel == SelectSeq(its, LAMBDA u : ~IsCached(u, recs))
  IN [k \in 1..Len(sel) |-> [item |-> sel[k], prev |-> MapGet(recs, sel[k])]]

\* buildOutput, 268-271: the payload saveProgress writes
saveProgress(t, src, recs) == [generatedAt |-> t, source |-> src, items |-> recs]

\* what the awaited calls of one task give: an HTML rendering link or none,
\* images or none, and whether the completion service answers the task's
\* calls with a text (llm) or fails them
Outcomes ==
  {o \in [html : BOOLEAN, imgs : BOOLEAN, llm : BOOLEAN] :
     ~o.html => (~o.imgs /\ ~o.llm)}

\* buildOutput task, 285-327
PrevSummary(recs, i) == IF i = 0 THEN EmptyText ELSE recs[i].summary
PrevDetailed(recs, i) == IF i = 0 THEN EmptyText ELSE recs[i].detailedSummary
fetchPaper(u, prev, recs, o, cfg, t) ==
  [url |-> u,
   summary |-> IF ~o.html THEN NO_HTML_MSG
               ELSE IF PrevSummary(recs, prev) # EmptyText THEN PrevSummary(recs, prev)
               ELSE generateSummary(cfg, o.llm, t),
   detailedSummary |-> IF ~o.html THEN NO_HTML_MSG
               ELSE IF PrevDetailed(recs, prev) # EmptyText THEN PrevDetailed(recs, prev)
               ELSE generateDetailedSummary(cfg, o.llm, t),
   imgs |-> o.html /\ o.imgs,
   updatedAt |-> t]
\* whether the task reaches callLLM
fetchCallsLLM(prev, recs, o, cfg) ==
  /\ o.html
  /\ cfg
  /\ (PrevSummary(recs, prev) = EmptyText \/ PrevDetailed(recs, prev) = EmptyText)

\* buildOutput up to the first await of its tasks
buildOutput(r, its) ==
  LET recs == r.existing.items
      cached == cachedOf(its, recs, r.generatedAt)
      tp == toProcessOf(its, recs)
      W == NumWorkers(SUMMARY_CONCURRENCY, Len(tp))
  IN /\ papersFile' = saveProgress(r.generatedAt, SOURCE_URL, cached)
     /\ run' = [r EXCEPT !.items = its, !.toProcess = tp, !.allDone = cached,
                         !.nextIdx = W, !.inflight = 0..(W - 1),
                         !.writes = r.writes + 1,
                         !.pc = IF tp = <<>> THEN "finalize" ELSE "enrich"]

\* main, 480-513: from the filter's answer to the start of the tasks
AfterFilter(r, newlyKept) ==
  LET its == r.alreadyKept \o newlyKept
  IN /\ cacheFile' = IF r.newItems # <<>>
                     THEN UpdateCache(r.filterCache, r.newItems, newlyKept)
                     ELSE r.filterCache
     /\ buildOutput([r EXCEPT !.oldPapers = oldPapersOf(r.existing, its)], its)
     /\ UNCHANGED indexFile

\* main, 436-483: the listing is fetched and split; with nothing new, or no
\* completion service, control runs on to buildOutput
FetchStart(rows, cfg) ==
  /\ UNCHANGED <<rcvars, fvars, uvars>>
  /\ CanStart
  /\ clock' = clock + 1
  /\ hist' = [valid |-> FALSE, listing |-> <<>>]
  /\ LET allItems == extractItems(rows)
         r == [IdleRun EXCEPT !.script = "fetch", !.rows = rows,
                 !.listing = allItems, !.existing = papersFile,
                 !.filterCache = cacheFile,
                 !.alreadyKept = alreadyKeptOf(allItems, papersFile, cacheFile),
                 !.newItems = newItemsOf(allItems, papersFile, cacheFile),
                 !.generatedAt = clock + 1, !.llmConfigured = cfg,
                 !.rerun = hist.valid /\ hist.listing = rows,
                 !.startIndex = indexFile]
     IN IF r.newItems # <<>> /\ cfg
        THEN /\ run' = [r EXCEPT !.pc = "filter", !.filterCalls = Range(r.newItems)]
             /\ UNCHANGED <<papersFile, indexFile, cacheFile>>
        ELSE AfterFilter(r, r.newItems)

\* main, 483-513: filterByRelevance returns
FilterDone(kept) ==
  /\ UNCHANGED <<rcvars, fvars, uvars>>
  /\ run.script = "fetch"
  /\ run.pc = "filter"
  /\ kept \in FilterOutcomes(run.newItems)
  /\ AfterFilter(run, kept)
  /\ UNCHANGED <<clock, hist>>

\* runConcurrent's worker after the task at index i settled: the next loop turn
Advance(r, i) ==
  LET nxt == WorkerLoop(r.nextIdx, Len(r.toProcess))
      infl == (r.inflight \ {i}) \cup (IF nxt = Returned THEN {} ELSE {nxt})
  IN [r EXCEPT !.nextIdx = IF nxt = Returned THEN @ ELSE @ + 1,
               !.inflight = infl,
               !.pc = IF infl = {} THEN "finalize" ELSE "enrich"]

\* the state a finished run leaves for the checks: what it read at its start
Done(r) ==
  [IdleRun EXCEPT !.pc = "done", !.script = r.script, !.existing = r.existing,
                  !.startIndex = r.startIndex, !.rerun = r.rerun,
                  !.llmCalls = r.llmCalls, !.listing = r.listing,
                  !.generatedAt = r.generatedAt, !.writes = r.writes + 1]

\* allDone.push(paper), 330, and allItems.push(paper), backfill.js 277
pushOverLast(list, paper) ==
  IF list = <<>> THEN <<paper>> ELSE [list EXCEPT ![Len(list)] = paper]
push(list, paper) == Append(list, paper)

\* buildOutput task, 285-343, and the worker's next loop turn
TaskDone(i, o) ==
  /\ UNCHANGED <<rcvars, fvars, uvars>>
  /\ run.script \in {"fetch", "force"}
  /\ run.pc = "enrich"
  /\ i \in run.inflight
  /\ o \in Outcomes
  /\ LET tp == run.toProcess[i + 1]
         recs == run.existing.items
         paper == fetchPaper(tp.item, tp.prev, recs, o, run.llmConfigured, run.generatedAt)
         done == push(run.allDone, paper)
     IN /\ papersFile' = saveProgress(run.generatedAt, SOURCE_URL, done)
        /\ run' = [Advance(run, i) EXCEPT !.allDone = done,
                     !.llmCalls = IF fetchCallsLLM(tp.prev, recs, o, run.llmConfigured)
                                  THEN @ \cup {tp.item} ELSE @,
                     !.writes = @ + 1]
  /\ UNCHANGED <<indexFile, cacheFile, clock, hist>>

\* main, 515-522: the old papers are appended, final save, index
FinalItemsOldOnly(done, old) == old
FinalItems(done, old) == done \o old
FetchFinish ==
  /\ UNCHANGED <<rcvars, fvars, uvars>>
  /\ run.script = "fetch"
  /\ run.pc = "finalize"
  /\ LET payload == saveProgress(run.generatedAt, SOURCE_URL,
                                 FinalItems(run.allDone, run.oldPapers))
     IN /\ papersFile' = payload
        /\ indexFile' = saveIndex(payload)
  /\ run' = Done(run)
  /\ hist' = [valid |-> TRUE, listing |-> run.rows]
  /\ UNCHANGED <<cacheFile, clock>>

\* main, 388-400: existingById.has(normalized.arxivId)
existingByUrlHas(recs, id) == toAbsUrl(id) \in Urls(recs)
existingByIdHas(recs, id) ==
  id \in {normalizeArxivId(recs[i].url) : i \in 1..Len(recs)}

\* main, 379-417: force-add of one paper; a paper the dataset holds already is
\* skipped and the script returns
ForceStart(id, cfg) ==
  /\ UNCHANGED <<rcvars, fvars, uvars>>
  /\ CanStart
  /\ IF existingByIdHas(papersFile.items, id)
     THEN /\ run' = [IdleRun EXCEPT !.script = "force", !.pc = "done",
                       !.forceId = id, !.existing = papersFile,
                       !.startIndex = indexFile]
          /\ UNCHANGED <<papersFile, clock, hist>>
     ELSE /\ clock' = clock + 1
          /\ hist' = [valid |-> FALSE, listing |-> <<>>]
          /\ buildOutput([IdleRun EXCEPT !.script = "force", !.forceId = id,
                            !.existing = papersFile, !.generatedAt = clock + 1,
                            !.llmConfigured = cfg, !.startIndex = indexFile],
                         <<toAbsUrl(id)>>)
  /\ UNCHANGED <<indexFile, cacheFile>>

\* main, 418-425
ForceFinish ==
  /\ UNCHANGED <<rcvars, fvars, uvars>>
  /\ run.script = "force"
  /\ run.pc = "finalize"
  /\ LET old == SelectSeq(run.existing.items,
                          LAMBDA p : normalizeArxivId(p.url) # run.forceId)
         payload == saveProgress(run.generatedAt, SOURCE_URL, run.allDone \o old)
     IN /\ papersFile' = payload
        /\ indexFile' = saveIndex(payload)
  /\ run' = Done(run)
  /\ UNCHANGED <<cacheFile, clock, hist>>

(***************************************************************************)
(* backfill.js                                                             *)
(***************************************************************************)

\* BATCH_SIZE as given in the environment; 0 stands for unset
BatchSizes == {0, 1}

\* main, 191-196: the kept urls the dataset has no record of
missingOf(cache, ex) == SelectSeq(cache.kept, LAMBDA u : u \notin Urls(ex.items))
todoOf(s, b) == Take(s, IF b = 0 THEN Len(s) ELSE b)

\* what the awaited calls of one backfill task give: the abstract page's
\* metadata or none, images or none, a text from the completion service or none
BackfillOutcomes == [meta : BOOLEAN, imgs : BOOLEAN, llm : BOOLEAN]

\* backfill task, 262-275
backfillPaper(u, o, cfg, t) ==
  [url |-> u,
   summary |-> generateSummary(cfg, o.llm, t),
   detailedSummary |-> generateDetailedSummary(cfg, o.llm, t),
   imgs |-> o.imgs,
   updatedAt |-> t]

\* main, 177-231 and 290-291: the tasks are built and started
BackfillStart(cfg, b) ==
  /\ UNCHANGED <<rcvars, fvars, uvars>>
  /\ CanStart
  /\ LET todo == todoOf(missingOf(cacheFile, papersFile), b)
         W == NumWorkers(CONCURRENCY, Len(todo))
     IN /\ todo # <<>>
        /\ run' = [IdleRun EXCEPT !.script = "backfill", !.pc = "enrich",
                     !.existing = papersFile, !.startIndex = indexFile,
                     !.filterCache = cacheFile,
                     !.generatedAt = clock + 1, !.llmConfigured = cfg,
                     !.toProcess = [k \in 1..Len(todo) |-> [item |-> todo[k], prev |-> 0]],
                     !.allDone = papersFile.items,
                     !.nextIdx = W, !.inflight = 0..(W - 1)]
  /\ clock' = clock + 1
  /\ hist' = [valid |-> FALSE, listing |-> <<>>]
  /\ UNCHANGED <<papersFile, indexFile, cacheFile>>

\* backfill task, 231-288
BackfillTaskDone(i, o) ==
  /\ UNCHANGED <<rcvars, fvars, uvars>>
  /\ run.script = "backfill"
  /\ run.pc = "enrich"
  /\ i \in run.inflight
  /\ o \in BackfillOutcomes
  /\ IF ~o.meta
     THEN /\ run' = [Advance(run, i) EXCEPT !.skipped = @ \cup {i}]
          /\ UNCHANGED <<papersFile, indexFile>>
     ELSE LET paper == backfillPaper(run.toProcess[i + 1].item, o,
                                     run.llmConfigured, run.generatedAt)
              allItems == push(run.allDone, paper)
              payload == saveProgress(run.generatedAt, "backfill", allItems)
          IN /\ papersFile' = payload
             /\ indexFile' = saveIndex(payload)
             /\ run' = [Advance(run, i) EXCEPT !.allDone = allItems,
                          !.llmCalls = IF run.llmConfigured
                                       THEN @ \cup {run.toProcess[i + 1].item} ELSE @,
                          !.writes = @ + 1]
  /\ UNCHANGED <<cacheFile, clock, hist>>

\* main, 293-294: the final save
BackfillFinish ==
  /\ UNCHANGED <<rcvars, fvars, uvars>>
  /\ run.script = "backfill"
  /\ run.pc = "finalize"
  /\ LET payload == saveProgress(run.generatedAt, "backfill", run.allDone)
     IN /\ papersFile' = payload
        /\ indexFile' = saveIndex(payload)
  /\ run' = Done(run)
  /\ UNCHANGED <<cacheFile, clock, hist>>

(***************************************************************************)
(* The regeneration script (summaries of the papers without images)        *)
(***************************************************************************)

\* main, 110-123: the indices of the records whose imageUrls is empty
RECURSIVE needRegenOf(_, _)
needRegenOf(recs, i) ==
  IF i > Len(recs) THEN <<>>
  ELSE (IF recs[i].imgs THEN <<>> ELSE <<i>>) \o needRegenOf(recs, i + 1)

\* what the awaited calls of one regen task give: the PDF's text or none, a
\* text from the completion service or none
RegenOutcomes == [pdf : BOOLEAN, llm : BOOLEAN]

\* regen task, 167-177
regenPaper(paper, o, cfg, t) ==
  [paper EXCEPT !.summary = generateSummary(cfg, o.llm, t),
                !.detailedSummary = generateDetailedSummary(cfg, o.llm, t),
                !.updatedAt = t]

\* main, 103-155 and 191-192; without a papers.json the unguarded
\* JSON.parse(fs.readFileSync(...)) of line 107 throws and the script exits
\* with an error (199-202)
RegenStart(cfg, b) ==
  /\ UNCHANGED <<rcvars, fvars, uvars>>
  /\ CanStart
  /\ IF papersFile = NoFile
     THEN /\ run' = [IdleRun EXCEPT !.script = "regen", !.pc = "failed"]
          /\ UNCHANGED <<clock, hist>>
     ELSE LET todo == todoOf(needRegenOf(papersFile.items, 1), b)
              W == NumWorkers(CONCURRENCY, Len(todo))
          IN /\ todo # <<>>
             /\ run' = [IdleRun EXCEPT !.script = "regen", !.pc = "enrich",
                          !.existing = papersFile, !.startIndex = indexFile,
                          !.generatedAt = clock + 1, !.llmConfigured = cfg,
                          !.toProcess = [k \in 1..Len(todo) |->
                                           [item |-> papersFile.items[todo[k]].url,
                                            prev |-> todo[k]]],
                          !.allDone = papersFile.items,
                          !.nextIdx = W, !.inflight = 0..(W - 1)]
             /\ clock' = clock + 1
             /\ hist' = [valid |-> FALSE, listing |-> <<>>]
  /\ UNCHANGED <<papersFile, indexFile, cacheFile>>

\* regen task, 155-189
RegenTaskDone(i, o) ==
  /\ UNCHANGED <<rcvars, fvars, uvars>>
  /\ run.script = "regen"
  /\ run.pc = "enrich"
  /\ i \in run.inflight
  /\ o \in RegenOutcomes
  /\ IF ~o.pdf
     THEN /\ run' = Advance(run, i)
          /\ UNCHANGED <<papersFile, indexFile>>
     ELSE LET index == run.toProcess[i + 1].prev
              items == [run.allDone EXCEPT ![index] =
                          regenPaper(run.existing.items[index], o,
                                     run.llmConfigured, run.generatedAt)]
              payload == saveProgress(run.generatedAt, run.existing.source, items)
          IN /\ papersFile' = payload
             /\ indexFile' = saveIndex(payload)
             /\ run' = [Advance(run, i) EXCEPT !.allDone = items,
                          !.llmCalls = IF run.llmConfigured
                                       THEN @ \cup {run.toProcess[i + 1].item} ELSE @,
                          !.writes = @ + 1]
  /\ UNCHANGED <<cacheFile, clock, hist>>

\* main, 194
RegenFinish ==
  /\ UNCHANGED <<rcvars, fvars, uvars>>
  /\ run.script = "regen"
  /\ run.pc = "finalize"
  /\ LET payload == saveProgress(run.generatedAt, run.existing.source, run.allDone)
     IN /\ papersFile' = payload
        /\ indexFile' = saveIndex(payload)
  /\ run' = Done(run)
  /\ UNCHANGED <<cacheFile, clock, hist>>

\* the process is killed between two of its steps
Crash ==
  /\ UNCHANGED <<rcvars, fvars, uvars>>
  /\ run.pc \in {"filter", "enrich", "finalize"}
  /\ run' = IdleRun
  /\ hist' = [valid |-> FALSE, listing |-> <<>>]
  /\ UNCHANGED <<papersFile, indexFile, cacheFile, clock>>

(***************************************************************************)
(* filterByRelevance (scripts/llm.js, 104-159) as main calls it             *)
(*                                                                         *)
(* fltItems    the candidates (main's newItems): the k-th one is k         *)
(* fltEnv      the environment: LLM_ENABLE not "false", LLM_API_KEY set    *)
(* fltResults  per batch: not started, awaiting callLLM, or done with the  *)
(*             response the call gave                                      *)
(* fltNextIdx  runConcurrent's cursor over the batches                     *)
(* fltState    where the call stands                                       *)
(* fltKept     the list filterByRelevance returned (main's newlyKept)      *)
(* fltCache    data/filter_cache.json                                      *)
(* fltCalls    the number of callLLM calls made                            *)
(***************************************************************************)
MaxCandidates == 41
MaxIndices == 2
BATCH == 40
FILTER_CONCURRENCY == 5

\* config.js: LLM_ENABLE, LLM_PROVIDER (never empty: it defaults to
\* "dashscope"), LLM_API_KEY
Envs == [enable : BOOLEAN, apiKey : BOOLEAN]
LLM_ENABLE(env) == env.enable
LLM_PROVIDER(env) == TRUE
LLM_API_KEY(env) == env.apiKey
LlmOnIfKey(env) == LLM_API_KEY(env)
LlmOn(env) == LLM_ENABLE(env) /\ LLM_PROVIDER(env) /\ LLM_API_KEY(env)

\* what callLLM returns: null, or a trimmed non-empty text. A text is kept as
\* what the filter reads of it: whether it is the word for "none", and the
\* decimal numbers /\d+/g finds in it, in order
NullResponse == [kind |-> "null", nums |-> <<>>]
NoneResponse == [kind |-> "none", nums |-> <<>>]
IndexVals == {0, 1, 2, 3, 41}
Responses ==
  {NullResponse, NoneResponse}
    \cup {[kind |-> "text", nums |-> ns] : ns \in SeqsUpTo(IndexVals, MaxIndices)}

\* the batches: items.slice(i, i + BATCH) for i = 0, BATCH, ...
NumBatches(its) == (Len(its) + BATCH - 1) \div BATCH
BatchOf(its, b) == SubSeq(its, (b - 1) * BATCH + 1, Min(b * BATCH, Len(its)))

\* parseInt(n, 10) - 1
parseIndexOneBased(n) == n
parseIndex(n) == n - 1

\* one batch task, 133-152: its return value for the response it got
BatchResultFailClosed(batch, resp) ==
  LET indices == SelectSeq([k \in 1..Len(resp.nums) |-> parseIndex(resp.nums[k])],
                           LAMBDA x : x >= 0 /\ x < Len(batch))
  IN [k \in 1..Len(indices) |-> batch[indices[k] + 1]]
BatchResult(batch, resp) ==
  IF resp.kind = "null" THEN batch
  ELSE IF resp.kind = "none" THEN <<>>
  ELSE LET indices == SelectSeq([k \in 1..Len(resp.nums) |-> parseIndex(resp.nums[k])],
                                LAMBDA x : x >= 0 /\ x < Len(batch))
       IN [k \in 1..Len(indices) |-> batch[indices[k] + 1]]

Unstarted == [st |-> "unstarted", resp |-> NullResponse]
Pending == [st |-> "pending", resp |-> NullResponse]
BatchDoneWith(resp) == [st |-> "done", resp |-> resp]

\* results.flat()
RECURSIVE Flat(_, _, _)
Flat(its, res, b) ==
  IF b > Len(res) THEN <<>>
  ELSE BatchResult(BatchOf(its, b), res[b].resp) \o Flat(its, res, b + 1)

FltInit ==
  /\ fltItems \in {[k \in 1..n |-> k] : n \in 1..MaxCandidates}
  /\ fltEnv \in Envs
  /\ fltResults = <<>>
  /\ fltNextIdx = 0
  /\ fltState = "called"
  /\ fltKept = <<>>
  /\ fltCache = NoCache
  /\ fltCalls = 0

FltIdle ==
  /\ fltItems = <<>>
  /\ fltEnv = [enable |-> FALSE, apiKey |-> FALSE]
  /\ fltResults = <<>>
  /\ fltNextIdx = 0
  /\ fltState = "idle"
  /\ fltKept = <<>>
  /\ fltCache = NoCache
  /\ fltCalls = 0

\* main, 483-504, once filterByRelevance has returned: the cache is updated
\* and written
FilterReturned(kept) ==
  /\ fltKept' = kept
  /\ fltCache' = UpdateCache(fltCache, fltItems, kept)
  /\ fltState' = "saved"

\* filterByRelevance, 106-156: without a completion service the input is
\* returned; otherwise the batch tasks are built and runConcurrent starts
\* the first of them
FilterCall ==
  /\ UNCHANGED <<rcvars, pvars, uvars>>
  /\ fltState = "called"
  /\ IF ~LlmOn(fltEnv)
     THEN /\ FilterReturned(fltItems)
          /\ UNCHANGED <<fltResults, fltNextIdx, fltCalls>>
     ELSE LET nb == NumBatches(fltItems)
              W == NumWorkers(FILTER_CONCURRENCY, nb)
          IN /\ fltResults' = [b \in 1..nb |-> IF b <= W THEN Pending ELSE Unstarted]
             /\ fltNextIdx' = W
             /\ fltCalls' = W
             /\ fltState' = "filtering"
             /\ UNCHANGED <<fltKept, fltCache>>
  /\ UNCHANGED <<fltItems, fltEnv>>

\* the callLLM of batch b returns resp: the task returns, its worker takes the
\* next batch, and after the last batch main goes on to the cache
BatchDone(b, resp) ==
  /\ UNCHANGED <<rcvars, pvars, uvars>>
  /\ fltState = "filtering"
  /\ b \in 1..Len(fltResults)
  /\ fltResults[b].st = "pending"
  /\ LET nxt == WorkerLoop(fltNextIdx, Len(fltResults))
         res == IF nxt = Returned
                THEN [fltResults EXCEPT ![b] = BatchDoneWith(resp)]
                ELSE [fltResults EXCEPT ![b] = BatchDoneWith(resp), ![nxt + 1] = Pending]
     IN /\ fltResults' = res
        /\ fltNextIdx' = IF nxt = Returned THEN fltNextIdx ELSE fltNextIdx + 1
        /\ fltCalls' = IF nxt = Returned THEN fltCalls ELSE fltCalls + 1
        /\ IF \A c \in 1..Len(res) : res[c].st = "done"
           THEN FilterReturned(Flat(fltItems, res, 1))
           ELSE UNCHANGED <<fltKept, fltCache, fltState>>
  /\ UNCHANGED <<fltItems, fltEnv>>

\* the process is killed while batches are awaited
FilterKill ==
  /\ UNCHANGED <<rcvars, pvars, uvars>>
  /\ fltState = "filtering"
  /\ fltState' = "killed"
  /\ UNCHANGED <<fltItems, fltEnv, fltResults, fltNextIdx, fltKept, fltCache, fltCalls>>

FltNext ==
  \/ FilterCall
  \/ \E b \in 1..Len(fltResults), resp \in Responses : BatchDone(b, resp)
  \/ FilterKill

(***************************************************************************)
(* One enrichment task on its own: the buildOutput task of fetch_papers.js *)
(* (285-327) and the backfill task (backfill.js, 231-275), for an item     *)
(* without a previous record.                                              *)
(*                                                                         *)
(* enrich    the script, the item's url, whether the completion service is *)
(*           configured, and what the task's awaited calls give            *)
(* enriched  the record the task builds                                    *)
(***************************************************************************)
\* what the awaited calls give: the abstract page's metadata (backfill), an
\* HTML rendering link, a non-empty text and images from that page, a text
\* from the PDF (backfill), a text from the completion service
ExtractionOutcomes ==
  {o \in [meta : BOOLEAN, html : BOOLEAN, text : BOOLEAN, imgs : BOOLEAN,
          pdf : BOOLEAN, llm : BOOLEAN] : ~o.html => (~o.text /\ ~o.imgs)}

Nothing == [kind |-> "nothing"]
Skipped == [kind |-> "skipped"]

TaskInit ==
  /\ enrich \in [script : {"fetch", "backfill"}, item : ListingUrls,
                 cfg : BOOLEAN, o : ExtractionOutcomes]
  /\ enriched = Nothing

TaskIdle ==
  /\ enrich = Nothing
  /\ enriched = Nothing

\* the task runs to its end
EnrichTask ==
  /\ UNCHANGED <<rcvars, pvars, fvars, nvars, lvars>>
  /\ enriched = Nothing
  /\ enriched' = IF enrich.script = "fetch"
                 THEN fetchPaper(enrich.item, 0, <<>>, enrich.o, enrich.cfg, 1)
                 ELSE IF ~enrich.o.meta THEN Skipped
                 ELSE backfillPaper(enrich.item, enrich.o, enrich.cfg, 1)
  /\ UNCHANGED enrich

TaskNext == EnrichTask

(***************************************************************************)
(* normalizeArxivId on strings (scripts/arxiv.js, 1-25)                     *)
(*                                                                         *)
(* A string is the sequence of its characters.                             *)
(*                                                                         *)
(* nzInput   the argument: its text and, when it was built as a reference  *)
(*           to a paper, that paper's identifier                           *)
(* nzResult  what the call gave: a value, or an exception                  *)
(***************************************************************************)
Digits == {"0", "1", "2", "3", "4", "5", "6", "7", "8", "9"}
IsDigits(s) == \A i \in 1..Len(s) : s[i] \in Digits

\* the case folding of the /i flag, for the letters the patterns name
Lower(c) ==
  CASE c = "A" -> "a" [] c = "B" -> "b" [] c = "D" -> "d" [] c = "F" -> "f"
    [] c = "G" -> "g" [] c = "H" -> "h" [] c = "I" -> "i" [] c = "L" -> "l"
    [] c = "M" -> "m" [] c = "O" -> "o" [] c = "P" -> "p" [] c = "R" -> "r"
    [] c = "S" -> "s" [] c = "T" -> "t" [] c = "V" -> "v" [] c = "X" -> "x"
    [] OTHER -> c
LowerSeq(s) == [i \in 1..Len(s) |-> Lower(s[i])]

\* s carries the literal lit (lower case) at position p, whatever the case
HasAt(s, p, lit) ==
  /\ p >= 1
  /\ p + Len(lit) - 1 <= Len(s)
  /\ SubSeq(LowerSeq(s), p, p + Len(lit) - 1) = lit
EndsWith(s, lit) == HasAt(s, Len(s) - Len(lit) + 1, lit)

\* String.prototype.trim
RECURSIVE Trim(_)
Trim(s) ==
  IF s = <<>> THEN s
  ELSE IF s[1] = " " THEN Trim(Tail(s))
  ELSE IF s[Len(s)] = " " THEN Trim(SubSeq(s, 1, Len(s) - 1))
  ELSE s

\* value.match(NEW_ID_RE): group 1, or the empty string when nothing matches
\* /^(\d{4}\.\d{4,5})(?:v\d+)?$/i
VersionSuffix(s) == Len(s) >= 2 /\ Lower(s[1]) = "v" /\ IsDigits(Tail(s))
IdLengths(s) ==
  {k \in {4, 5} :
     /\ Len(s) >= 5 + k
     /\ IsDigits(SubSeq(s, 1, 4))
     /\ s[5] = "."
     /\ IsDigits(SubSeq(s, 6, 5 + k))
     /\ LET rest == SubSeq(s, 6 + k, Len(s))
        IN rest = <<>> \/ VersionSuffix(rest)}
MatchNewId(s) ==
  IF IdLengths(s) = {} THEN <<>>
  ELSE SubSeq(s, 1, 5 + (CHOOSE k \in IdLengths(s) : TRUE))

\* value.match(ARXIV_URL_RE): group 2, or the empty string when nothing matches
\* /arxiv\.org\/(abs|pdf|html)\/([^?#]+)/i
Host == <<"a", "r", "x", "i", "v", ".", "o", "r", "g", "/">>
Routes == {<<"a", "b", "s", "/">>, <<"p", "d", "f", "/">>, <<"h", "t", "m", "l", "/">>}
RestStarts(s) ==
  {q \in 1..Len(s) :
     /\ s[q] \notin {"?", "#"}
     /\ \E r \in Routes : HasAt(s, q - Len(r), r) /\ HasAt(s, q - Len(r) - Len(Host), Host)}
RECURSIVE UpToQueryOrFragment(_)
UpToQueryOrFragment(s) ==
  IF s = <<>> \/ s[1] \in {"?", "#"} THEN <<>>
  ELSE <<s[1]>> \o UpToQueryOrFragment(Tail(s))
MatchArxivUrl(s) ==
  IF RestStarts(s) = {} THEN <<>>
  ELSE LET q == CHOOSE x \in RestStarts(s) : \A y \in RestStarts(s) : x <= y
       IN UpToQueryOrFragment(SubSeq(s, q, Len(s)))

\* .replace(/\.pdf$/i, "") and .replace(/\/$/, "")
KeepPdfSuffix(s) == s
StripPdfSuffix(s) == IF EndsWith(s, <<".", "p", "d", "f">>) THEN SubSeq(s, 1, Len(s) - 4) ELSE s
StripSlash(s) == IF EndsWith(s, <<"/">>) THEN SubSeq(s, 1, Len(s) - 1) ELSE s

\* decodeURIComponent: %XX escapes are replaced by the character their bytes
\* encode (UTF-8); a "%" not followed by two hex digits, or bytes that are no
\* UTF-8 sequence, raise URIError. A decoded character other than a digit,
\* "." and "v" is written "~": no pattern names it.
HexDigits == Digits \cup {"a", "b", "c", "d", "e", "f", "A", "B", "C", "D", "E", "F"}
HexVal(c) ==
  CASE c \in Digits -> CHOOSE n \in 0..9 : c = <<"0", "1", "2", "3", "4", "5", "6", "7", "8", "9">>[n + 1]
    [] Lower(c) = "a" -> 10 [] c \in {"b", "B"} -> 11 [] c \in {"c", "C"} -> 12
    [] c \in {"d", "D"} -> 13 [] c \in {"e", "E"} -> 14 [] c \in {"f", "F"} -> 15
EscapeAt(s, p) == p + 2 <= Len(s) /\ s[p] = "%" /\ s[p + 1] \in HexDigits /\ s[p + 2] \in HexDigits
ByteAt(s, p) == 16 * HexVal(s[p + 1]) + HexVal(s[p + 2])
CharOfCode(n) ==
  IF n \in 48..57 THEN <<"0", "1", "2", "3", "4", "5", "6", "7", "8", "9">>[n - 47]
  ELSE IF n = 46 THEN "." ELSE IF n = 118 THEN "v" ELSE IF n = 86 THEN "V" ELSE "~"
\* the number of continuation bytes a lead byte asks for; -1: no lead byte
Continuations(b) ==
  IF b < 128 THEN 0 ELSE IF b \in 194..223 THEN 1 ELSE IF b \in 224..239 THEN 2
  ELSE IF b \in 240..244 THEN 3 ELSE -1
URIError == [ok |-> FALSE, text |-> <<>>]
RECURSIVE decodeURIComponent(_)
decodeURIComponent(s) ==
  IF s = <<>> THEN [ok |-> TRUE, text |-> <<>>]
  ELSE IF s[1] # "%"
       THEN LET rest == decodeURIComponent(Tail(s))
            IN IF rest.ok THEN [ok |-> TRUE, text |-> <<s[1]>> \o rest.text] ELSE URIError
  ELSE IF ~EscapeAt(s, 1) THEN URIError
  ELSE LET b == ByteAt(s, 1)
           n == Continuations(b)
       IN IF n = -1 THEN URIError
          ELSE IF \E j \in 1..n : ~(EscapeAt(s, 1 + 3 * j) /\ ByteAt(s, 1 + 3 * j) \in 128..191)
               THEN URIError
          ELSE LET rest == decodeURIComponent(SubSeq(s, 4 + 3 * n, Len(s)))
               IN IF rest.ok
                  THEN [ok |-> TRUE, text |-> <<IF n = 0 THEN CharOfCode(b) ELSE "~">> \o rest.text]
                  ELSE URIError

\* normalizeArxivId, 9-25
Value(v) == [threw |-> FALSE, value |-> v]
Thrown == [threw |-> TRUE, value |-> <<>>]
normalizeArxivIdOfText(input) ==
  IF input = <<>> THEN Value(<<>>)
  ELSE LET value == Trim(input)
           direct == MatchNewId(value)
           urlMatch == MatchArxivUrl(value)
           raw == decodeURIComponent(StripSlash(StripPdfSuffix(urlMatch)))
       IN IF direct # <<>> THEN Value(direct)
          ELSE IF urlMatch = <<>> THEN Value(<<>>)
          ELSE IF ~raw.ok THEN Thrown
          ELSE Value(MatchNewId(raw.text))

\* the references to a paper: the bare identifier, or a link to its abstract,
\* PDF or HTML rendering, with or without a version suffix
IdTexts == {<<"2", "5", "0", "3", ".", "0", "1", "0", "7", "8">>, <<"2", "5", "0", "3", ".", "0", "1", "0", "7">>}
Versions == {<<>>, <<"v", "2">>, <<"V", "1", "0">>}
SchemeText(x) == IF x = "http" THEN <<"h", "t", "t", "p", ":", "/", "/">> ELSE <<"h", "t", "t", "p", "s", ":", "/", "/">>
RouteText(f) == IF f = "abs" THEN <<"a", "b", "s", "/">> ELSE IF f = "pdf" THEN <<"p", "d", "f", "/">> ELSE <<"h", "t", "m", "l", "/">>
References ==
  {r \in [form : {"bare", "abs", "pdf", "html"}, scheme : {"http", "https"},
          id : IdTexts, ver : Versions, tail : {<<>>, <<".", "p", "d", "f">>, <<"/">>},
          spaces : BOOLEAN] :
     /\ r.form = "bare" => (r.scheme = "https" /\ r.tail = <<>>)
     /\ r.tail = <<".", "p", "d", "f">> => r.form = "pdf"}
TextOf(r) ==
  LET ref == IF r.form = "bare" THEN r.id \o r.ver
             ELSE SchemeText(r.scheme) \o Host \o RouteText(r.form) \o r.id \o r.ver \o r.tail
  IN IF r.spaces THEN <<" ">> \o ref \o <<" ">> ELSE ref

\* strings that refer to no paper
Unrecognized ==
  {<<>>,
   <<"h", "e", "l", "l", "o">>,
   <<"2", "5", "0", "3", ".", "0", "1", "0", "7", "8", "9">>,
   <<"2", "5", "a", "3", ".", "0", "1", "0", "7", "8">>,
   <<"h", "t", "t", "p", "s", ":", "/", "/", "e", "x", "a", "m", "p", "l", "e", ".", "o", "r", "g", "/", "a", "b", "s", "/", "2", "5", "0", "3", ".", "0", "1", "0", "7", "8">>,
   <<"h", "t", "t", "p", "s", ":", "/", "/", "a", "r", "x", "i", "v", ".", "o", "r", "g", "/", "a", "b", "s", "/">>,
   <<"h", "t", "t", "p", "s", ":", "/", "/", "a", "r", "x", "i", "v", ".", "o", "r", "g", "/", "l", "i", "s", "t", "/", "2", "5", "0", "3", ".", "0", "1", "0", "7", "8">>,
   <<"h", "t", "t", "p", "s", ":", "/", "/", "a", "r", "x", "i", "v", ".", "o", "r", "g", "/", "a", "b", "s", "/", "c", "s", ".", "r", "o">>,
   <<"h", "t", "t", "p", "s", ":", "/", "/", "a", "r", "x", "i", "v", ".", "o", "r", "g", "/", "a", "b", "s", "/", "%", "4", "1", "b", "c">>,
   <<"h", "t", "t", "p", "s", ":", "/", "/", "a", "r", "x", "i", "v", ".", "o", "r", "g", "/", "a", "b", "s", "/", "%", "z", "z">>,
   <<"h", "t", "t", "p", "s", ":", "/", "/", "a", "r", "x", "i", "v", ".", "o", "r", "g", "/", "a", "b", "s", "/", "2", "5", "0", "3", ".", "0", "1", "0", "7", "8", "%">>,
   <<"h", "t", "t", "p", "s", ":", "/", "/", "a", "r", "x", "i", "v", ".", "o", "r", "g", "/", "p", "d", "f", "/", "%", "E", "0", "%", "A", "4", "%", "A">>}

Inputs ==
  {[text |-> TextOf(r), id |-> r.id] : r \in References}
    \cup {[text |-> t, id |-> <<>>] : t \in Unrecognized}

NzInit ==
  /\ nzInput \in Inputs
  /\ nzResult = Nothing

NzIdle ==
  /\ nzInput = Nothing
  /\ nzResult = Nothing

\* the call returns or throws
Normalize ==
  /\ UNCHANGED <<rcvars, pvars, fvars, tvars, lvars>>
  /\ nzResult = Nothing
  /\ nzResult' = normalizeArxivIdOfText(nzInput.text)
  /\ UNCHANGED nzInput

NzNext == Normalize

(***************************************************************************)
(* The relay (scripts/wecom_proxy.js, 127-182): one request                *)
(*                                                                         *)
(* PROXY_TOKEN   the environment's token, "" when unset (line 44)          *)
(* request       method, url, Authorization header and body                *)
(* relayPc       where the handler stands                                  *)
(* relayResults  the handler's results array                               *)
(* relayCalls    the calls made to the messaging API, with their outcome   *)
(* response      the answer given to the client                            *)
(***************************************************************************)
MaxMessages == 3

Tokens == {"", "secret", "other"}
NoHeader == [scheme |-> "", token |-> ""]
Bearer(t) == [scheme |-> "Bearer", token |-> t]

\* the body: text that is no JSON, or an object with or without the
\* credentials, whose messages is an array of n messages or no array (-1)
Bodies ==
  {[json |-> FALSE, credentials |-> FALSE, messages |-> -1]}
    \cup [json : {TRUE}, credentials : BOOLEAN, messages : -1..MaxMessages]

Requests ==
  [method : {"GET", "POST"}, url : {"/relay", "/health", "/other"},
   auth : {NoHeader} \cup {Bearer(t) : t \in Tokens}, body : Bodies]

Respond(status, obj) == [status |-> status, body |-> obj]

RelayInit ==
  /\ PROXY_TOKEN \in {"", "secret"}
  /\ request \in Requests
  /\ relayPc = "received"
  /\ relayResults = <<>>
  /\ relayCalls = <<>>
  /\ response = Nothing

RelayIdle ==
  /\ PROXY_TOKEN = ""
  /\ request = Nothing
  /\ relayPc = "idle"
  /\ relayResults = <<>>
  /\ relayCalls = <<>>
  /\ response = Nothing

\* 139-144: the request passes the auth check
Authorized(token, req) == token # "" => req.auth = Bearer(token)

Call(api, i) == [api |-> api, index |-> i, ok |-> "pending"]
Settle(calls, ok) == [calls EXCEPT ![Len(calls)].ok = IF ok THEN "ok" ELSE "failed"]

\* 177-178: the final answer
Summary(res) ==
  LET successCount == Cardinality({i \in 1..Len(res) : res[i].ok})
  IN Respond(200, [success |-> successCount, fail |-> Len(res) - successCount,
                   results |-> res])

\* 159, 165-170: the loop goes on to message i + 1 whatever message i gave
NextMessageIfSent(i, n, ok) == ok /\ i + 1 < n
NextMessage(i, n, ok) == i + 1 < n

\* 128-155: the handler up to the call of getAccessToken
RelayRequest ==
  /\ UNCHANGED <<rcvars, pvars, fvars, tvars, nvars>>
  /\ relayPc = "received"
  /\ IF request.method = "GET" /\ request.url = "/health"
     THEN /\ response' = Respond(200, [status |-> "ok"])
          /\ relayPc' = "responded"
          /\ UNCHANGED relayCalls
     ELSE IF request.method # "POST" \/ request.url # "/relay"
     THEN /\ response' = Respond(404, [error |-> "Not found"])
          /\ relayPc' = "responded"
          /\ UNCHANGED relayCalls
     ELSE IF ~Authorized(PROXY_TOKEN, request)
     THEN /\ response' = Respond(401, [error |-> "Unauthorized"])
          /\ relayPc' = "responded"
          /\ UNCHANGED relayCalls
     ELSE IF ~request.body.json
     THEN /\ response' = Respond(500, [error |-> "SyntaxError"])
          /\ relayPc' = "responded"
          /\ UNCHANGED relayCalls
     ELSE IF ~request.body.credentials \/ request.body.messages = -1
     THEN /\ response' = Respond(400, [error |-> "Missing corpid, corpsecret, or messages"])
          /\ relayPc' = "responded"
          /\ UNCHANGED relayCalls
     ELSE /\ relayCalls' = <<Call("gettoken", -1)>>
          /\ relayPc' = "token"
          /\ UNCHANGED response
  /\ UNCHANGED <<PROXY_TOKEN, request, relayResults>>

\* 155-166: getAccessToken returns or throws; with a token the first message
\* is sent
TokenDone(ok) ==
  /\ UNCHANGED <<rcvars, pvars, fvars, tvars, nvars>>
  /\ relayPc = "token"
  /\ IF ~ok
     THEN /\ relayCalls' = Settle(relayCalls, ok)
          /\ response' = Respond(500, [error |-> "gettoken"])
          /\ relayPc' = "responded"
     ELSE IF request.body.messages = 0
     THEN /\ relayCalls' = Settle(relayCalls, ok)
          /\ response' = Summary(relayResults)
          /\ relayPc' = "responded"
     ELSE /\ relayCalls' = Append(Settle(relayCalls, ok), Call("send", 0))
          /\ relayPc' = "sending"
          /\ UNCHANGED response
  /\ UNCHANGED <<PROXY_TOKEN, request, relayResults>>

\* 165-178: sendMessage returns or throws; the result is pushed and, after the
\* pause, the next message is sent or the answer given
SendDone(ok) ==
  /\ UNCHANGED <<rcvars, pvars, fvars, tvars, nvars>>
  /\ relayPc = "sending"
  /\ LET i == Len(relayResults)
         res == Append(relayResults, [index |-> i, ok |-> ok])
     IN /\ relayResults' = res
        /\ IF NextMessage(i, request.body.messages, ok)
           THEN /\ relayCalls' = Append(Settle(relayCalls, ok), Call("send", i + 1))
                /\ UNCHANGED <<relayPc, response>>
           ELSE /\ relayCalls' = Settle(relayCalls, ok)
                /\ response' = Summary(res)
                /\ relayPc' = "responded"
  /\ UNCHANGED <<PROXY_TOKEN, request>>

RelayNext ==
  \/ RelayRequest
  \/ \E ok \in BOOLEAN : TokenDone(ok)
  \/ \E ok \in BOOLEAN : SendDone(ok)

PNext ==
  \/ \E rows \in SeqsUpTo(ListingUrls, MaxListing), cfg \in BOOLEAN : FetchStart(rows, cfg)
  \/ \E kept \in FilterOutcomes(run.newItems) : FilterDone(kept)
  \/ \E i \in run.inflight, o \in Outcomes : TaskDone(i, o)
  \/ FetchFinish
  \/ \E id \in PaperIds, cfg \in BOOLEAN : ForceStart(id, cfg)
  \/ ForceFinish
  \/ \E cfg \in BOOLEAN, b \in BatchSizes : BackfillStart(cfg, b)
  \/ \E i \in run.inflight, o \in BackfillOutcomes : BackfillTaskDone(i, o)
  \/ BackfillFinish
  \/ \E cfg \in BOOLEAN, b \in BatchSizes : RegenStart(cfg, b)
  \/ \E i \in run.inflight, o \in RegenOutcomes : RegenTaskDone(i, o)
  \/ RegenFinish
  \/ Crash

\* the dataset scripts, runConcurrent left aside
Init == PInit /\ RcIdle /\ FltIdle /\ TaskIdle /\ NzIdle /\ RelayIdle
Spec == Init /\ [][PNext]_vars

\* The files a first normal run leaves when its listing carried one paper,
\* under the url toAbsUrl gives it, and the relevance filter answered that no
\* paper is relevant: an empty dataset and the url on the rejected list.
RejectedUrl == toAbsUrl("2503.01078")
AfterRejection ==
  /\ papersFile = saveProgress(0, SOURCE_URL, <<>>)
  /\ indexFile = saveIndex(saveProgress(0, SOURCE_URL, <<>>))
  /\ cacheFile = UpdateCache(NoCache, <<RejectedUrl>>, <<>>)
  /\ clock = 0
  /\ run = IdleRun
  /\ hist = [valid |-> FALSE, listing |-> <<>>]

\* the dataset scripts run after that first run
InitRejected == AfterRejection /\ RcIdle /\ FltIdle /\ TaskIdle /\ NzIdle /\ RelayIdle
SpecRejected == InitRejected /\ [][PNext]_vars

\* one call of runConcurrent, the files left aside
InitRC == RcInit /\ PInit /\ FltIdle /\ TaskIdle /\ NzIdle /\ RelayIdle
SpecRC == InitRC /\ [][RcNext]_vars

\* the same call when every task terminates: an awaited task settles and the
\* event loop runs the continuation that waits for it
SpecRCFair == SpecRC /\ WF_vars(RcNext)

\* one call of filterByRelevance, with main's cache update
InitFilter == FltInit /\ PInit /\ RcIdle /\ TaskIdle /\ NzIdle /\ RelayIdle
SpecFilter == InitFilter /\ [][FltNext]_vars

\* one enrichment task
InitTask == TaskInit /\ PInit /\ RcIdle /\ FltIdle /\ NzIdle /\ RelayIdle
SpecTask == InitTask /\ [][TaskNext]_vars

\* one request to the relay
InitRelay == RelayInit /\ PInit /\ RcIdle /\ FltIdle /\ TaskIdle /\ NzIdle
SpecRelay == InitRelay /\ [][RelayNext]_vars

\* one call of normalizeArxivId
InitNormalize == NzInit /\ PInit /\ RcIdle /\ FltIdle /\ TaskIdle /\ RelayIdle
SpecNormalize == InitNormalize /\ [][NzNext]_vars

(***************************************************************************)
(* Properties of runConcurrent (checked under SpecRC)                      *)
(***************************************************************************)

\* C1: at every instant of a runConcurrent execution the number of tasks that
\* were started and have not settled is at most the concurrency limit.
C1_InFlightAtMostLimit == Cardinality(InFlight) <= concurrency

\* the limit is reached while tasks are still waiting and others have settled
C1_Witness ==
  /\ rcState = "pending"
  /\ Cardinality(InFlight) = concurrency
  /\ Len(tasks) > concurrency
  /\ settled # <<>>
  /\ nextIdx < Len(tasks)

\* C2: if one task fails, every other task is still started and runs to
\* completion, for every limit >= 1 and every position of the failing task.
C2_OneFailureOthersComplete ==
  (RcQuiescent /\ Cardinality(Failing) = 1)
    => \A i \in 0..(Len(tasks) - 1) : i \in started /\ i \in Range(settled)

\* C3: when one task fails, runConcurrent still returns the result array: as
\* long as the task list, the slots of the other tasks holding their values;
\* the failure does not reject the runner.
C3_OneFailureStillReturns ==
  (RcQuiescent /\ Cardinality(Failing) = 1)
    => /\ rcState = "resolved"
       /\ Len(results) = Len(tasks)
       /\ \A i \in 1..Len(tasks) : tasks[i].ok => results[i] = tasks[i].val

\* C4: when all tasks succeed, the returned array holds in slot i the value
\* produced by task i, whatever the order of completion and the limit.
C4_ResultsAlignedByIndex ==
  (rcState = "resolved" /\ Failing = {})
    => /\ Len(results) = Len(tasks)
       /\ \A i \in 1..Len(tasks) : results[i] = tasks[i].val

\* three tasks with differing values resolved after completing out of order
C4_Witness ==
  /\ rcState = "resolved"
  /\ Failing = {}
  /\ Len(tasks) = 3
  /\ tasks[1].val # tasks[2].val
  /\ \E i, j \in 1..Len(settled) : i < j /\ settled[i] > settled[j]

(***************************************************************************)
(* Properties of the dataset scripts (checked under Spec)                  *)
(***************************************************************************)

InRun == run.pc \in {"filter", "enrich", "finalize"}
AtRest == run.pc \in {"idle", "done"}

\* C5: in the fetch pipeline (normal run and force-add), at every point after
\* the run started the full-dataset file still holds every record it held
\* when the run started, plus every item completed so far.
C5_DiskKeepsStartAndCompleted ==
  (run.script \in {"fetch", "force"} /\ InRun)
    => /\ Urls(run.existing.items) \subseteq Urls(papersFile.items)
       /\ Urls(run.allDone) \subseteq Urls(papersFile.items)

\* C6: across the successive writes of the full-dataset file during one run
\* (fetch pipeline, force-add, backfill, regen) the number of records written
\* never decreases from one write to the next.
C6_WritesNeverShrink ==
  [][(/\ run.writes >= 1
      /\ run'.writes = run.writes + 1
      /\ run'.generatedAt = run.generatedAt)
       => Len(papersFile'.items) >= Len(papersFile.items)]_vars

\* a fetch run that wrote the file at least four times, two tasks included
C6_Witness ==
  /\ run.pc = "done"
  /\ run.script = "fetch"
  /\ run.writes >= 4
  /\ Len(run.existing.items) > 0
  /\ Len(papersFile.items) >= 3

\* C7: a second run of the fetch pipeline on an unchanged source listing leaves
\* the full-dataset file and the index file identical to what the first run
\* wrote, timestamps and order included.
C7_RerunByteIdentical ==
  (run.pc = "done" /\ run.script = "fetch" /\ run.rerun)
    => /\ papersFile = run.existing
       /\ indexFile = run.startIndex

\* C8: in a pipeline run no completion-service call is issued for a listed
\* paper whose stored record (the one buildOutput finds under the item's url)
\* already has both summaries, and after the run the dataset holds that record
\* with its two summary fields unchanged.
StoredRecord(u) == MapGet(run.existing.items, u)
C9_RunKeepsEveryRecord ==
  (run.pc = "done" /\ run.script = "fetch")
    => Urls(run.existing.items) \subseteq Urls(papersFile.items)

\* a completed run whose dataset held a paper of the listing and one not on it
C9_Witness ==
  /\ run.pc = "done"
  /\ run.script = "fetch"
  /\ Urls(run.existing.items) \cap Range(run.listing) # {}
  /\ Urls(run.existing.items) \ Range(run.listing) # {}

\* C10: after any sequence of normal runs, force-adds and backfills the dataset
\* never holds two records whose references normalize to the same identifier.
C10_OneRecordPerIdentifier ==
  AtRest
    => \A i, j \in 1..Len(papersFile.items) :
         i # j => normalizeArxivId(papersFile.items[i].url)
                    # normalizeArxivId(papersFile.items[j].url)

\* C11: in every enrichment batch (fetch pipeline, backfill) no two work items
\* handed to the worker pool refer to the same canonical identifier, so no two
\* workers process the same paper at the same time.
C11_WorkItemsDistinctIdentifiers ==
  (run.script \in {"fetch", "backfill"} /\ run.pc = "enrich")
    => \A i, j \in 1..Len(run.toProcess) :
         i # j => normalizeArxivId(run.toProcess[i].item)
                    # normalizeArxivId(run.toProcess[j].item)

\* C12: at every point at which the files can be observed the index file lists
\* exactly the record ids of the full-dataset file.
C12_IndexSameMembership ==
  {indexFile.items[i].id : i \in 1..Len(indexFile.items)} = Urls(papersFile.items)

\* C13: no url is in both the kept list and the rejected list of the persisted
\* relevance cache, after any sequence of runs.
C13_KeptRejectedDisjoint ==
  Range(cacheFile.kept) \cap Range(cacheFile.rejected) = {}

\* two runs filtered, and the cache holds urls on both lists
C13_Witness ==
  /\ run.pc = "done"
  /\ run.script = "fetch"
  /\ clock = 2
  /\ run.existing.items # <<>>
  /\ cacheFile.kept # <<>>
  /\ cacheFile.rejected # <<>>

\* C14: a url on the kept (rejected) list of the persisted cache stays on that
\* list after every later step of every run: it is not removed, not moved to
\* the other list, and not among the items a later run submits to the filter.
C14_ClassifiedStays ==
  [][/\ Range(cacheFile.kept) \subseteq Range(cacheFile'.kept)
     /\ Range(cacheFile.rejected) \subseteq Range(cacheFile'.rejected)
     /\ Range(cacheFile.kept) \cap Range(cacheFile'.rejected) = {}
     /\ Range(cacheFile.rejected) \cap Range(cacheFile'.kept) = {}
     /\ run'.filterCalls # run.filterCalls =>
          run'.filterCalls \cap (Range(cacheFile.kept) \cup Range(cacheFile.rejected)) = {}
    ]_vars

\* a run whose listing carries a url rejected earlier and a url kept earlier
\* has passed the filter phase
C14_Witness ==
  /\ run.script = "fetch"
  /\ run.pc = "finalize"
  /\ Range(run.listing) \cap Range(run.filterCache.rejected) # {}
  /\ Range(run.listing) \cap Range(run.filterCache.kept) # {}
  /\ cacheFile = run.filterCache

\* C15: a url on the rejected list of the cache a run reads is neither sent to
\* the completion service for filtering nor among the items the run passes on
\* to enrichment and summarisation, whatever the dataset holds.
C15_RejectedNeverProcessed ==
  (run.script = "fetch" /\ InRun)
    => \A u \in Range(run.filterCache.rejected) :
         /\ u \notin run.filterCalls
         /\ u \notin Range(run.items)

(***************************************************************************)
(* Properties of the relevance filter (checked under SpecFilter)           *)
(***************************************************************************)

\* C16: the relevance cache is written after each filter batch: if the process
\* is killed during filtering, the decision on every candidate of a batch that
\* had completed is on disk.
C16_CompletedBatchesOnDisk ==
  fltState = "killed"
    => \A b \in 1..Len(fltResults) :
         fltResults[b].st = "done" =>
           LET batch == BatchOf(fltItems, b)
               kept == BatchResult(batch, fltResults[b].resp)
           IN \A k \in 1..Len(batch) :
                IF batch[k] \in Range(kept)
                THEN batch[k] \in Range(fltCache.kept)
                ELSE batch[k] \in Range(fltCache.rejected)

\* C17: if the completion call of a batch returns no result, every candidate
\* of that batch is kept and none is rejected, while each other batch is
\* decided by its own response.
C17_FailedBatchKept ==
  (fltState = "saved" /\ LlmOn(fltEnv))
    => \A b \in 1..Len(fltResults) :
         LET batch == BatchOf(fltItems, b)
             resp == fltResults[b].resp
         IN \A k \in 1..Len(batch) :
              IF resp.kind = "null"
              THEN /\ batch[k] \in Range(fltKept)
                   /\ batch[k] \in Range(fltCache.kept)
                   /\ batch[k] \notin Range(fltCache.rejected)
              ELSE batch[k] \in Range(fltKept) <=> k \in Range(resp.nums)

\* two batches, the first one's call failed, the second one's answered "none"
C17_Witness ==
  /\ fltState = "saved"
  /\ Len(fltResults) = 2
  /\ fltResults[1].resp.kind = "null"
  /\ fltResults[2].resp.kind = "none"
  /\ Len(fltKept) = BATCH
  /\ fltCache.rejected = <<BATCH + 1>>

\* C18: for a batch of n titles and a response listing indices, the kept items
\* are exactly those whose 1-based position is listed and lies in 1..n, and
\* every other item of the batch is rejected.
C18_KeptExactlyListedPositions ==
  (fltState = "saved" /\ LlmOn(fltEnv))
    => /\ Range(fltKept) \subseteq Range(fltItems)
       /\ \A b \in 1..Len(fltResults) :
            LET batch == BatchOf(fltItems, b)
                resp == fltResults[b].resp
            IN resp.kind = "text" =>
                 \A k \in 1..Len(batch) :
                   /\ batch[k] \in Range(fltKept) <=> k \in Range(resp.nums)
                   /\ batch[k] \in Range(fltCache.rejected) <=> k \notin Range(resp.nums)

\* three titles and the response "1,3"
C18_Witness ==
  /\ fltState = "saved"
  /\ fltItems = <<1, 2, 3>>
  /\ Len(fltResults) = 1
  /\ fltResults[1].resp = [kind |-> "text", nums |-> <<1, 3>>]
  /\ fltKept = <<1, 3>>
  /\ fltCache = [kept |-> <<1, 3>>, rejected |-> <<2>>]

C20_UnconfiguredFallbackSummary ==
  (run.pc \in {"enrich", "finalize"} /\ ~run.llmConfigured)
    => \A i \in 1..Len(papersFile.items) :
         papersFile.items[i].url \notin Urls(run.existing.items)
           => /\ papersFile.items[i].summary = fallbackSummary
              /\ papersFile.items[i].summary # EmptyText

(***************************************************************************)
(* Properties of one enrichment task (checked under SpecTask)              *)
(***************************************************************************)

\* C21: whenever content extraction yields no text for an item (no HTML
\* rendering link, or the HTML page fetch fails or is empty) both summary
\* fields of its record equal the sentinel NO_HTML_MSG, which differs from the
\* fallback texts; in every other case neither field equals the sentinel.
NoTextExtracted == ~enrich.o.html \/ ~enrich.o.text
C21_SentinelIffNoText ==
  (enriched # Nothing /\ enriched # Skipped)
    => /\ NO_HTML_MSG \notin {fallbackSummary, fallbackDetailed}
       /\ IF NoTextExtracted
          THEN enriched.summary = NO_HTML_MSG /\ enriched.detailedSummary = NO_HTML_MSG
          ELSE enriched.summary # NO_HTML_MSG /\ enriched.detailedSummary # NO_HTML_MSG

(***************************************************************************)
(* Properties of normalizeArxivId (checked under SpecNormalize)            *)
(***************************************************************************)

\* C23: for every identifier of the recognized shape, with or without version
\* suffix, normalizeArxivId returns the unversioned identifier whether given
\* the bare string, an abstract, PDF (with or without .pdf) or HTML-rendering
\* link, over http or https.
C23_SameIdentifierForEveryForm ==
  (nzResult # Nothing /\ nzInput.id # <<>>) => nzResult = Value(nzInput.id)

\* "https://arxiv.org/pdf/2503.01078v2.pdf" gave "2503.01078"
C23_Witness ==
  /\ nzInput.text = <<"h", "t", "t", "p", "s", ":", "/", "/", "a", "r", "x", "i", "v", ".", "o", "r", "g", "/", "p", "d", "f", "/", "2", "5", "0", "3", ".", "0", "1", "0", "7", "8", "v", "2", ".", "p", "d", "f">>
  /\ nzResult = Value(<<"2", "5", "0", "3", ".", "0", "1", "0", "7", "8">>)

\* C24: for every string that is no recognized reference, a link with a
\* malformed trailing part included, normalizeArxivId returns the empty
\* string and does not throw.
C24_UnrecognizedGivesEmptyNeverThrows ==
  (nzResult # Nothing /\ nzInput.id = <<>>) => nzResult = Value(<<>>)

(***************************************************************************)
(* Loading the dataset, and force-add of a known paper (checked under      *)
(* Spec)                                                                   *)
(***************************************************************************)

\* C22: every script that loads the dataset at its start (fetch pipeline,
\* backfill, regen) takes a missing or unparseable file for an empty
\* collection and goes on; none terminates with an error.
C22_MissingSnapshotTolerated ==
  (run.script \in {"fetch", "backfill", "regen"} /\ run.existing = NoFile)
    => run.pc # "failed"

\* C27: when the dataset already holds a record whose reference normalizes to
\* the requested identifier, under any url form, a force-add makes no
\* completion call and leaves the dataset file and the index file as they
\* were; no task runs, so no detail page is written.
C27_ForceAddOfKnownPaperChangesNothing ==
  (/\ run.script = "force"
   /\ \E i \in 1..Len(run.existing.items) :
        normalizeArxivId(run.existing.items[i].url) = run.forceId)
    => /\ run.pc = "done"
       /\ run.llmCalls = {}
       /\ run.writes = 0
       /\ papersFile = run.existing
       /\ indexFile = run.startIndex

\* a force-add of a paper that the dataset holds under another url form
C27_Witness ==
  /\ run.script = "force"
  /\ run.pc = "done"
  /\ \E i \in 1..Len(run.existing.items) :
       /\ normalizeArxivId(run.existing.items[i].url) = run.forceId
       /\ run.existing.items[i].url # toAbsUrl(run.forceId)
       /\ run.existing.items[i].summary.kind = "llm"

(***************************************************************************)
(* Properties of the relay (checked under SpecRelay)                       *)
(***************************************************************************)

SendCalls == SelectSeq(relayCalls, LAMBDA c : c.api = "send")

\* C25: an authorized POST /relay with n messages for which the access token
\* is obtained is answered 200 with n results, results[i].index = i in order,
\* success = the number of results with ok true and success + fail = n; a
\* failed send of message i is recorded in results[i] and the later messages
\* are still sent.
C25_RelayReportsEveryMessage ==
  (/\ relayPc = "responded"
   /\ relayCalls # <<>>
   /\ relayCalls[1].ok = "ok")
    => LET n == request.body.messages
       IN /\ response.status = 200
          /\ Len(response.body.results) = n
          /\ Len(SendCalls) = n
          /\ \A i \in 1..n :
               /\ response.body.results[i].index = i - 1
               /\ SendCalls[i].index = i - 1
               /\ response.body.results[i].ok <=> SendCalls[i].ok = "ok"
          /\ response.body.success
               = Cardinality({i \in 1..n : response.body.results[i].ok})
          /\ response.body.success + response.body.fail = n

\* three messages, the first one failed and the other two were sent
C25_Witness ==
  /\ relayPc = "responded"
  /\ PROXY_TOKEN = "secret"
  /\ request.body.messages = 3
  /\ response = Summary(<<[index |-> 0, ok |-> FALSE], [index |-> 1, ok |-> TRUE],
                          [index |-> 2, ok |-> TRUE]>>)
  /\ response.body.success = 2
  /\ response.body.fail = 1

\* C26: a POST /relay request that does not carry the bearer token equal to
\* PROXY_TOKEN is answered 401 and triggers no call to the messaging API,
\* for every configuration of PROXY_TOKEN.
C26_OnlyTokenBearersAreForwarded ==
  (/\ relayPc \notin {"idle", "received"}
   /\ request.method = "POST"
   /\ request.url = "/relay"
   /\ request.auth # Bearer(PROXY_TOKEN))
    => /\ response = Respond(401, [error |-> "Unauthorized"])
       /\ relayCalls = <<>>

\* C30: the list filterByRelevance returns is a sub-sequence of its input:
\* each candidate at most once and the kept candidates in input order,
\* whatever the order in which the batches complete and whatever indices,
\* repeated or unordered, a response holds. (The candidates of the input
\* are 1, 2, ... in input order.)
C30_KeptIsSubsequenceOfInput ==
  fltState = "saved"
    => \A i, j \in 1..Len(fltKept) : i < j => fltKept[i] < fltKept[j]

(***************************************************************************)
(* The shared list of completed records (checked under Spec)               *)
(***************************************************************************)

Appending == run.script \in {"fetch", "force", "backfill"}

\* the task that returns in this step, if one does
Completing == run.inflight \ run'.inflight

\* under every interleaving of the enrichment tasks, a task that
\* completes with a record appends it to the shared list exactly once (the
\* list grows by this one record and keeps every earlier one), and the
\* snapshot written in the same step holds the whole list. (A backfill task
\* that gets no metadata is skipped: it has no record and writes nothing.)
StepAppendsOnce ==
  [][(Appending /\ run.pc = "enrich" /\ run'.pc \in {"enrich", "finalize"}
        /\ Completing # {})
       => \E i \in Completing :
            IF i \in run'.skipped
            THEN run'.allDone = run.allDone /\ papersFile' = papersFile
            ELSE /\ Len(run'.allDone) = Len(run.allDone) + 1
                 /\ SubSeq(run'.allDone, 1, Len(run.allDone)) = run.allDone
                 /\ run'.allDone[Len(run'.allDone)].url = run.toProcess[i + 1].item
                 /\ papersFile'.items = run'.allDone]_vars

\* at the end of the batch the list holds, after the records it started
\* with, exactly one record per processed item: as many records of a paper
\* as there are work items of it that were not skipped
OneRecordPerProcessedItem ==
  (Appending /\ run.pc = "finalize")
    => LET n == Len(run.toProcess)
           done == 0..(n - 1) \ run.skipped
           first == Len(run.allDone) - Cardinality(done)
       IN /\ first >= 0
          /\ \A i \in done :
               Cardinality({k \in (first + 1)..Len(run.allDone) :
                              run.allDone[k].url = run.toProcess[i + 1].item})
                 = Cardinality({j \in done :
                                  run.toProcess[j + 1].item = run.toProcess[i + 1].item})

\* C28: no lost update: each task that completes with a record appends it
\* exactly once, the snapshot written right after the append holds it and
\* every record appended before it, and at the end of the batch the list
\* holds exactly one record per processed item.
C28_NoLostUpdate == StepAppendsOnce /\ []OneRecordPerProcessedItem

\* two tasks ran together and the second item's record was appended first
C28_Witness ==
  /\ run.script = "fetch"
  /\ run.pc = "finalize"
  /\ Len(run.toProcess) = 2
  /\ Len(run.allDone) >= 2
  /\ run.allDone[Len(run.allDone) - 1].url = run.toProcess[2].item
  /\ run.allDone[Len(run.allDone)].url = run.toProcess[1].item
  /\ papersFile.items = run.allDone

(***************************************************************************)
(* runConcurrent without failures (checked under SpecRCFair)               *)
(***************************************************************************)

\* no two workers await the same task, and no worker awaits a settled one
OneWorkerPerTask ==
  \A w \in 1..Len(workers) :
    workers[w] >= 0
      => /\ workers[w] \notin Range(settled)
         /\ \A v \in 1..Len(workers) : v # w => workers[v] # workers[w]

\* the promise has resolved: every task was invoked and has settled, once
AllSettledOnce ==
  /\ Len(settled) = Len(tasks)
  /\ Range(settled) = 0..(Len(tasks) - 1)
  /\ started = 0..(Len(tasks) - 1)

\* C29: when no task fails, runConcurrent invokes every task of the list
\* exactly once, its promise resolves only after every task has settled, and
\* it terminates for every finite list of terminating tasks, the empty list
\* included.
C29_EveryTaskOnceThenResolves ==
  /\ [](Failing = {} => OneWorkerPerTask)
  /\ []((Failing = {} /\ rcState = "resolved") => AllSettledOnce)
  /\ (Failing = {}) ~> (rcState = "resolved")

\* three tasks shared by two workers, the second task settling first
C29_Witness ==
  /\ Failing = {}
  /\ rcState = "resolved"
  /\ Len(tasks) = 3
  /\ concurrency = 2
  /\ settled = <<1, 0, 2>>

====
